---- MODULE Spec2Model ----
(***************************************************************************)
(* MdnsServer (src/plugins/mdns/mdnsserver.cpp): the mDNS hostname prober  *)
(* and multicast membership maintainer of nitroshare-desktop.              *)
(*                                                                         *)
(* The object lives on one Qt event loop, so every slot runs to completion *)
(* before the next one starts: one action per slot.  messageReceived is    *)
(* connected to onMessageReceived on the same thread (a direct connection),*)
(* so onReadyRead's emit runs onMessageReceived inside the same step.      *)
(*                                                                         *)
(* Environment inputs of a step are drawn with \E: the outcome of each     *)
(* bind()/setsockopt(), the interfaces the OS enumerates, the outcome of   *)
(* each joinMulticastGroup call, the outcome of a writeDatagram call on a  *)
(* socket that is not bound, and the datagram that is read.  sendMessage   *)
(* (lines 60-70) is also called by the other objects of the program, at    *)
(* any time between two slots.  The build modelled is the Q_OS_UNIX one    *)
(* (lines 165-178 compiled in).                                            *)
(*                                                                         *)
(* mHostnameTimer is connected and made single-shot by the constructor,    *)
(* but no line of the file ever calls mHostnameTimer.start(): its active   *)
(* flag is FALSE after construction and no slot sets it.  The slot         *)
(* onHostnameTimeout is connected to that timer alone (line 47), so the    *)
(* action OnHostnameTimeout is guarded by the flag and is enabled in no    *)
(* reachable state.                                                        *)
(***************************************************************************)
EXTENDS Integers, Sequences, FiniteSets, TLC

VARIABLES
    mIpv4Bound,            \* mIpv4Socket.state() == BoundState
    mIpv6Bound,            \* mIpv6Socket.state() == BoundState
    joined,                \* multicast memberships held: <<protocol, interface name>>
    mHostname,             \* QString mHostname
    mHostnameSuffix,       \* int mHostnameSuffix (what its memory holds)
    suffixInitialized,     \* whether line 106 has assigned mHostnameSuffix yet
    mHostnameConfirmed,    \* bool mHostnameConfirmed
    mSocketTimerActive,    \* mSocketTimer.isActive()
    mHostnameTimerActive,  \* mHostnameTimer.isActive()
    localHostName,         \* what QHostInfo::localHostName() returns on this machine
    op,                    \* the slot (or sendMessage call) that ran last
    out                    \* what that slot did to the outside: events, datagrams, binds, joins

vars == <<mIpv4Bound, mIpv6Bound, joined, mHostname, mHostnameSuffix,
          suffixInitialized, mHostnameConfirmed, mSocketTimerActive, mHostnameTimerActive,
          localHostName, op, out>>

(***************************************************************************)
(* Bounds of the model.                                                    *)
(***************************************************************************)
\* Largest suffix number a candidate carries in the behaviors explored
\* (WithinBounds).
MaxSuffix == 3
\* Largest number of records in an inbound message.
MaxRecords == 2
\* The residues of the behaviors explored (GarbageDrawn) lie within
\* MaxResidue of one of GarbageAnchors or of an end of the int range.
MaxResidue == 1

(***************************************************************************)
(* Program constants.                                                      *)
(***************************************************************************)
\* mSocketTimer.start(60 * 1000)
SocketIntervalMs == 60000

\* int is 32 bits wide on the builds of this program.
MaxInt == 2147483647
MinInt == (0 - MaxInt) - 1

\* mHostnameSuffix has no initializer (line 44 names mHostnameConfirmed only):
\* until line 106 assigns it, it holds whatever its memory held when the
\* object was constructed, and that can be any int.
Garbage == MinInt .. MaxInt

\* Bound of the exploration, no property of the program: Garbage has 2^32
\* members and Init has a state for each of them; SpecBounded starts from
\* the members within MaxResidue of zero (which covers the negative values,
\* zero and the value line 106 assigns), of two values seen as stack residue,
\* and of either end of the range.
GarbageAnchors == {0, 21913, 32765}

GarbageDrawn ==
    { g \in UNION { (a - MaxResidue) .. (a + MaxResidue) : a \in GarbageAnchors }
              \cup { MinInt + d : d \in 0 .. MaxResidue }
              \cup { MaxInt - d : d \in 0 .. MaxResidue } :
        g \in Garbage }

Protocols == {"IPv4", "IPv6"}
HostNames == {"host", "pc"}

\* DnsUtil::MdnsIpv4Address / MdnsIpv6Address / MdnsPort are defined outside this
\* file; the model keeps them symbolic.
MdnsAddress(protocol) ==
    IF protocol = "IPv4" THEN "DnsUtil::MdnsIpv4Address" ELSE "DnsUtil::MdnsIpv6Address"
MdnsPort == "DnsUtil::MdnsPort"

(***************************************************************************)
(* Strings.  QString::arg(int) writes the number in decimal; the two       *)
(* format strings of the file are "-%1" and "%1%2.local.".                 *)
(***************************************************************************)
Digit(d) ==
    CASE d = 0 -> "0" [] d = 1 -> "1" [] d = 2 -> "2" [] d = 3 -> "3" [] d = 4 -> "4"
      [] d = 5 -> "5" [] d = 6 -> "6" [] d = 7 -> "7" [] d = 8 -> "8" [] d = 9 -> "9"

\* A negative number is written with a minus sign.  Its magnitude is taken
\* through m = -(n + 1), which is in range for every negative int.
RECURSIVE DecStr(_)
DecStr(n) ==
    IF n < 0
    THEN LET m == 0 - (n + 1)
             q == (m \div 10) + (IF m % 10 = 9 THEN 1 ELSE 0)
             d == ((m % 10) + 1) % 10
         IN  "-" \o (IF q = 0 THEN "" ELSE DecStr(q)) \o Digit(d)
    ELSE IF n < 10 THEN Digit(n)
    ELSE DecStr(n \div 10) \o Digit(n % 10)

\* line 105: QHostInfo::localHostName() + ".local."
InitialHostname(base) == base \o ".local."

\* line 148: QString("-%1").arg(n)
SuffixString(n) == "-" \o DecStr(n)

\* line 149: QString("%1%2.local.").arg(QHostInfo::localHostName()).arg(suffix)
SuffixedHostname(base, suffix) == base \o suffix \o ".local."

(***************************************************************************)
(* bindSocket (Q_OS_UNIX build).  o.share, o.sockopt, o.reuse are the      *)
(* outcomes of bind(ShareAddress), setsockopt(SO_REUSEADDR) and            *)
(* bind(ReuseAddressHint).  The result tells whether the socket ends up    *)
(* bound, the bind calls made, and the error signals emitted, in order.    *)
(***************************************************************************)
BindOutcomes ==
    { [share |-> TRUE,  sockopt |-> TRUE,  reuse |-> TRUE],
      [share |-> FALSE, sockopt |-> TRUE,  reuse |-> TRUE],
      [share |-> FALSE, sockopt |-> FALSE, reuse |-> TRUE],
      [share |-> FALSE, sockopt |-> TRUE,  reuse |-> FALSE],
      [share |-> FALSE, sockopt |-> FALSE, reuse |-> FALSE] }

ErrorEvent(protocol, what) == [signal |-> "error", protocol |-> protocol, arg |-> what]

\* (variant of BindSocket: the bind is not tried a second time)
BindSocket_SingleTry(protocol, o) ==
    [bound |-> o.share, calls |-> <<"ShareAddress">>, events |-> <<>>]

BindSocket(protocol, o) ==
    IF o.share
    THEN [bound |-> TRUE, calls |-> <<"ShareAddress">>, events |-> <<>>]
    ELSE [bound  |-> o.reuse,
          calls  |-> <<"ShareAddress", "ReuseAddressHint">>,
          events |-> (IF o.sockopt THEN <<>> ELSE <<ErrorEvent(protocol, "strerror")>>)
                     \o (IF o.reuse THEN <<>> ELSE <<ErrorEvent(protocol, "errorString")>>)]

\* (variant of NeedsBind: bindSocket called on every tick)
NeedsBind_Always(isBound) == TRUE

\* lines 75 and 78: bindSocket is called when the socket is not in BoundState.
NeedsBind(isBound) == ~isBound

\* What one family does at the top of onSocketTimeout (lines 75-82).
NoBind(isBound) == [bound |-> isBound, calls |-> <<>>, events |-> <<>>]
BindStep(protocol, isBound, o) ==
    IF NeedsBind(isBound) THEN BindSocket(protocol, o) ELSE NoBind(isBound)

(***************************************************************************)
(* Interfaces.  An interface has a name, the CanMulticast flag, and        *)
(* addresses of either family.                                             *)
(***************************************************************************)
IfaceUniverse ==
    { [name |-> "lo",    canMulticast |-> FALSE, v4 |-> TRUE,  v6 |-> TRUE],
      [name |-> "eth0",  canMulticast |-> TRUE,  v4 |-> TRUE,  v6 |-> FALSE],
      [name |-> "wlan0", canMulticast |-> TRUE,  v4 |-> FALSE, v6 |-> TRUE] }

\* lines 90-93: interface.allAddresses() is the static
\* QNetworkInterface::allAddresses(): every address of the host, whichever
\* interface object it is called through.
Ipv4Address(interface, ifaces) == \E i \in ifaces : i.v4
Ipv6Address(interface, ifaces) == \E i \in ifaces : i.v6

\* line 94: the condition under which mIpv4Socket joins on an interface.
JoinsIpv4(ipv4Bound, ipv4Address, ipv6Address) == ipv4Bound /\ ipv6Address
\* line 97: the condition under which mIpv6Socket joins on an interface.
JoinsIpv6(ipv6Bound, ipv4Address, ipv6Address) == ipv6Bound /\ ipv6Address

\* lines 85-101: the joinMulticastGroup calls of one tick.
JoinCalls(ipv4Bound, ipv6Bound, ifaces) ==
    IF ipv4Bound \/ ipv6Bound
    THEN { <<"IPv4", i.name>> : i \in
             { j \in ifaces : j.canMulticast
                 /\ JoinsIpv4(ipv4Bound, Ipv4Address(j, ifaces), Ipv6Address(j, ifaces)) } }
         \cup
         { <<"IPv6", i.name>> : i \in
             { j \in ifaces : j.canMulticast
                 /\ JoinsIpv6(ipv6Bound, Ipv4Address(j, ifaces), Ipv6Address(j, ifaces)) } }
    ELSE {}

\* The memberships held after the calls.  Every joinMulticastGroup call has
\* its own result: joinOk is the set of calls that succeed.  A join that
\* succeeds adds a membership, a join that fails (its result is ignored,
\* lines 95 and 98) changes nothing.
Memberships(held, calls, joinOk) == held \cup (calls \cap joinOk)

(***************************************************************************)
(* checkHostname and sendMessage.                                          *)
(***************************************************************************)
\* lines 183-192: the probe message built for one family.
ProbeMessage(hostname, protocol) ==
    [name     |-> hostname,
     type     |-> "A",
     protocol |-> protocol,
     address  |-> MdnsAddress(protocol),
     port     |-> MdnsPort]

\* lines 65 and 68: writeDatagram is called whatever the state of the socket.
\* On a socket that is not bound the call either drops the datagram and
\* leaves the socket as it is, or binds the socket itself (to a port of the
\* system's choice) and sends; binds says which.  The socket is in
\* BoundState afterwards if it was before or the call bound it.
BoundAfterWrite(isBound, binds) == isBound \/ binds

\* One writeDatagram call: the socket, what was written, the state the socket
\* was in at the call, and whether the datagram went out.  The call reports
\* nothing to this file (its result is not looked at).
WriteDatagram(socket, message, isBound, binds) ==
    [socket    |-> socket,
     name      |-> message.name,
     type      |-> message.type,
     address   |-> message.address,
     port      |-> message.port,
     bound     |-> isBound,
     delivered |-> isBound \/ binds]

\* lines 60-70: the packet is written through the socket of the message's
\* family.  writeBinds is the set of families on whose socket a write made
\* in the unbound state binds it.
SendMessage(message, ipv4Bound, ipv6Bound, writeBinds) ==
    (IF message.protocol = "IPv4"
       THEN <<WriteDatagram("IPv4", message, ipv4Bound, "IPv4" \in writeBinds)>>
       ELSE <<>>)
    \o
    (IF message.protocol = "IPv6"
       THEN <<WriteDatagram("IPv6", message, ipv6Bound, "IPv6" \in writeBinds)>>
       ELSE <<>>)

\* lines 181-195: checkHostname(protocol) as the datagrams it writes.
CheckHostname(hostname, protocol, ipv4Bound, ipv6Bound, writeBinds) ==
    SendMessage(ProbeMessage(hostname, protocol), ipv4Bound, ipv6Bound, writeBinds)

\* lines 107-108 and 150-151: both families are probed, IPv4 first.
CheckBoth(hostname, ipv4Bound, ipv6Bound, writeBinds) ==
    CheckHostname(hostname, "IPv4", ipv4Bound, ipv6Bound, writeBinds)
    \o CheckHostname(hostname, "IPv6", ipv4Bound, ipv6Bound, writeBinds)

\* The state of a socket after both probes were written.
SocketAfterProbes(protocol, isBound, writeBinds) ==
    BoundAfterWrite(isBound, protocol \in writeBinds)

(***************************************************************************)
(* The object's state as a record, so that a slot is a function from the   *)
(* state and the step's inputs to the state after it.                      *)
(***************************************************************************)
Cur ==
    [ipv4Bound      |-> mIpv4Bound,
     ipv6Bound      |-> mIpv6Bound,
     joined         |-> joined,
     hostname       |-> mHostname,
     suffix         |-> mHostnameSuffix,
     suffixInitialized |-> suffixInitialized,
     confirmed      |-> mHostnameConfirmed,
     socketTimer    |-> mSocketTimerActive,
     hostnameTimer  |-> mHostnameTimerActive,
     localHostName  |-> localHostName]

\* What a step did to the outside: the signals emitted (in order), the
\* datagrams written (in order), the bindSocket calls, the joinMulticastGroup
\* calls, the timers started, and a digest of the datagram it read.
NoRx == [read |-> FALSE, decoded |-> FALSE, isResponse |-> FALSE, records |-> 0,
         relevant |-> 0, relevantA |-> 0, later |-> 0]
NoOut == [events |-> <<>>, sent |-> <<>>, binds |-> <<>>, joins |-> {},
          started |-> {}, rx |-> NoRx]

\* lines 43-55: the members as the constructor leaves them before it calls
\* onSocketTimeout: only mHostnameConfirmed has an initializer, and
\* mHostnameSuffix holds g, what its memory held.
Constructed(base, g) ==
    [ipv4Bound      |-> FALSE,
     ipv6Bound      |-> FALSE,
     joined         |-> {},
     hostname       |-> "",
     suffix         |-> g,
     suffixInitialized |-> FALSE,
     confirmed      |-> FALSE,
     socketTimer    |-> FALSE,
     hostnameTimer  |-> FALSE,
     localHostName  |-> base]

(***************************************************************************)
(* onSocketTimeout.                                                        *)
(***************************************************************************)
\* (variant of BoundNow: the socket state sampled before the bind)
BoundNow_Stale(before, after) == before

\* lines 81-82: ipv4Bound and ipv6Bound are read from the sockets after the
\* binds of lines 75-80.
BoundNow(before, after) == after

\* line 104: probing begins when the hostname is not confirmed.
BeginsChecking(confirmed) == ~confirmed

\* line 106: the value the suffix counter is given when probing begins.
InitialSuffix == 1

\* (variant of SocketTimerRestarted: the restart placed inside the block of
\* line 85, so that it is reached only with a socket bound)
SocketTimerRestarted_WhenBound(anyBound) == anyBound

\* line 113: mSocketTimer.start(60 * 1000) is the last statement of the slot,
\* outside every condition; whether a socket is bound does not enter it.
SocketTimerRestarted(anyBound) == TRUE

\* Every joinMulticastGroup call a tick can make: a socket and an interface.
JoinUniverse == Protocols \X { i.name : i \in IfaceUniverse }

\* The inputs of a tick: the bind outcomes, the interfaces enumerated, the
\* joinMulticastGroup calls that succeed and the families on whose socket a
\* write binds it.
TickInputs ==
    [bind4 : BindOutcomes, bind6 : BindOutcomes,
     ifaces : SUBSET IfaceUniverse, joinOk : SUBSET JoinUniverse,
     writeBinds : SUBSET Protocols]

\* lines 72-114.  The result is the state after the slot, with the step's
\* outputs in the field out.
SocketTimeout(s, in) ==
    LET b4     == BindStep("IPv4", s.ipv4Bound, in.bind4)
        b6     == BindStep("IPv6", s.ipv6Bound, in.bind6)
        v4     == BoundNow(s.ipv4Bound, b4.bound)
        v6     == BoundNow(s.ipv6Bound, b6.bound)
        any    == v4 \/ v6
        calls  == JoinCalls(v4, v6, in.ifaces)
        begins == any /\ BeginsChecking(s.confirmed)
        name   == InitialHostname(s.localHostName)
    IN  [s EXCEPT
           !.ipv4Bound     = IF begins
                             THEN SocketAfterProbes("IPv4", b4.bound, in.writeBinds)
                             ELSE b4.bound,
           !.ipv6Bound     = IF begins
                             THEN SocketAfterProbes("IPv6", b6.bound, in.writeBinds)
                             ELSE b6.bound,
           !.joined        = Memberships(s.joined, calls, in.joinOk),
           !.hostname      = IF begins THEN name ELSE @,
           !.suffix        = IF begins THEN InitialSuffix ELSE @,
           !.suffixInitialized = begins \/ @,
           !.socketTimer   = SocketTimerRestarted(any)]
        @@
        [out |-> [events   |-> b4.events \o b6.events,
                  sent     |-> IF begins
                                THEN CheckBoth(name, b4.bound, b6.bound, in.writeBinds)
                                ELSE <<>>,
                  binds    |-> (IF b4.calls = <<>> THEN <<>> ELSE <<[protocol |-> "IPv4", calls |-> b4.calls, bound |-> b4.bound]>>)
                               \o (IF b6.calls = <<>> THEN <<>> ELSE <<[protocol |-> "IPv6", calls |-> b6.calls, bound |-> b6.bound]>>),
                  joins    |-> calls,
                  started  |-> IF SocketTimerRestarted(any)
                               THEN {<<"mSocketTimer", SocketIntervalMs>>} ELSE {},
                  rx       |-> NoRx]]

(***************************************************************************)
(* onHostnameTimeout.                                                      *)
(***************************************************************************)
ConfirmedEvent(hostname) == [signal |-> "hostnameConfirmed", arg |-> hostname]

\* lines 116-121.  A single-shot timer is inactive once it has fired.
HostnameTimeout(s) ==
    [s EXCEPT !.confirmed = TRUE, !.hostnameTimer = FALSE]
    @@
    [out |-> [NoOut EXCEPT !.events = <<ConfirmedEvent(s.hostname)>>]]

(***************************************************************************)
(* onReadyRead and onMessageReceived.                                      *)
(***************************************************************************)
RecordTypes == {"A", "AAAA", "TXT"}

\* (variant of RecordMatches: the TTL left untested)
RecordMatches_AnyTtl(record, hostname) ==
    (record.type = "A" \/ record.type = "AAAA") /\ record.name = hostname

\* lines 145-146: the test a record must pass to count as a conflict.
RecordMatches(record, hostname) ==
    (record.type = "A" \/ record.type = "AAAA")
    /\ record.name = hostname
    /\ record.ttl # 0

\* line 147: a matching record starts a retry when the hostname is not confirmed.
RetryAllowed(confirmed) == ~confirmed

\* (variant of AfterRetry: the loop goes on with the records that follow)
AfterRetry_Continue(rest) == rest

\* line 152: break, the records after the one that started a retry are not looked at.
AfterRetry(rest) == <<>>

\* line 148: mHostnameSuffix++ yields the old value and stores the old value
\* plus one.  At the top of the range (reached only from an unassigned
\* counter) the add instruction the builds emit wraps.
SuffixAfterRetry(n) == IF n = MaxInt THEN MinInt ELSE n + 1

\* lines 148-151: the retry.
Retry(s, writeBinds) ==
    LET n    == s.suffix
        name == SuffixedHostname(s.localHostName, SuffixString(n))
    IN  [s EXCEPT
           !.hostname  = name,
           !.suffix    = SuffixAfterRetry(n),
           !.ipv4Bound = SocketAfterProbes("IPv4", @, writeBinds),
           !.ipv6Bound = SocketAfterProbes("IPv6", @, writeBinds),
           !.out.sent  = @ \o CheckBoth(name, s.ipv4Bound, s.ipv6Bound, writeBinds)]

\* lines 144-155: the loop over the records.
RECURSIVE ForeachRecord(_, _, _)
ForeachRecord(records, s, writeBinds) ==
    IF records = <<>> THEN s
    ELSE IF RecordMatches(Head(records), s.hostname) /\ RetryAllowed(s.confirmed)
         THEN ForeachRecord(AfterRetry(Tail(records)), Retry(s, writeBinds), writeBinds)
         ELSE ForeachRecord(Tail(records), s, writeBinds)

\* lines 141-157.  s carries the outputs of the step so far in s.out.
MessageReceived(s, message, writeBinds) ==
    IF message.isResponse THEN ForeachRecord(message.records, s, writeBinds) ELSE s

ReceivedEvent == [signal |-> "messageReceived"]

\* (variant of Dispatches: the result of fromPacket ignored)
Dispatches_Unchecked(decodes) == TRUE

\* line 132: a datagram that does not decode is dropped.
Dispatches(decodes) == decodes

\* lines 123-139.  datagram.decodes is the result of DnsUtil::fromPacket and
\* datagram.message what it decoded.
ReadyRead(s, datagram, writeBinds) ==
    IF Dispatches(datagram.decodes)
    THEN MessageReceived(s @@ [out |-> [NoOut EXCEPT !.events = <<ReceivedEvent>>]],
                         datagram.message, writeBinds)
    ELSE s @@ [out |-> NoOut]

(***************************************************************************)
(* The datagrams the model reads.  Records are drawn from a pool built     *)
(* around the current candidate: the conflicting record in both address    *)
(* types, the three ways a record can fail to conflict (zero TTL, another  *)
(* type, another name), and a record for the candidate a retry would       *)
(* choose next.                                                            *)
(***************************************************************************)
Rec(type, name, ttl) == [type |-> type, name |-> name, ttl |-> ttl]

NextName(s) == SuffixedHostname(s.localHostName, SuffixString(s.suffix))

RecordPool(s) ==
    { Rec("A",    s.hostname, 120),
      Rec("AAAA", s.hostname, 120),
      Rec("A",    s.hostname, 0),
      Rec("TXT",  s.hostname, 120),
      Rec("A",    "other.local.", 120),
      Rec("A",    NextName(s), 120) }

SeqsUpTo(S, n) == UNION { [1..k -> S] : k \in 0..n }

\* Responses carry up to MaxRecords records; a query is looked at no further
\* than its direction (line 143), so queries carry at most one.
Messages(s) ==
    [isResponse : {TRUE},  records : SeqsUpTo(RecordPool(s), MaxRecords)]
    \cup
    [isResponse : {FALSE}, records : SeqsUpTo(RecordPool(s), 1)]

Datagrams(s) ==
    [decodes : {TRUE}, message : Messages(s)]
    \cup { [decodes |-> FALSE, message |-> [isResponse |-> FALSE, records |-> <<>>]] }

\* What the model records about the datagram a step read: whether it
\* decoded, whether it was a response, how many records it had, how many
\* of them were address records (of a type in `types`) for `hostname` with a
\* TTL other than zero, and how many address records for `hostname` or for
\* `next` (the candidate a retry would choose) stood after the first of those.
AddressRecordsFor(records, hostname, types) ==
    { i \in 1..Len(records) :
        /\ records[i].type \in types
        /\ records[i].name = hostname
        /\ records[i].ttl > 0 }

LaterRecords(records, hostname, next) ==
    LET first == AddressRecordsFor(records, hostname, {"A", "AAAA"})
    IN  { i \in AddressRecordsFor(records, hostname, {"A", "AAAA"})
                \cup AddressRecordsFor(records, next, {"A", "AAAA"}) :
            \E j \in first : j < i }

Digest(datagram, hostname, next) ==
    [read       |-> TRUE,
     decoded    |-> datagram.decodes,
     isResponse |-> datagram.decodes /\ datagram.message.isResponse,
     records    |-> IF datagram.decodes THEN Len(datagram.message.records) ELSE 0,
     relevant   |-> IF datagram.decodes
                    THEN Cardinality(AddressRecordsFor(datagram.message.records,
                                                       hostname, {"A", "AAAA"}))
                    ELSE 0,
     relevantA  |-> IF datagram.decodes
                    THEN Cardinality(AddressRecordsFor(datagram.message.records,
                                                       hostname, {"A"}))
                    ELSE 0,
     later      |-> IF datagram.decodes
                    THEN Cardinality(LaterRecords(datagram.message.records,
                                                  hostname, next))
                    ELSE 0]

(***************************************************************************)
(* The state machine.                                                      *)
(***************************************************************************)
\* The inputs a tick can meet in state s: bind outcomes are drawn only for
\* the sockets bindSocket will be called on, and join results only for the
\* joinMulticastGroup calls the tick makes.
BindInputsFor(isBound) ==
    IF isBound THEN {[share |-> TRUE, sockopt |-> TRUE, reuse |-> TRUE]}
               ELSE BindOutcomes

\* The write outcomes that matter when the sockets are in the states v4 and
\* v6: only a write on a socket that is not bound can bind it, and only a
\* step that writes (writes) meets an outcome at all.
WriteInputsFor(writes, v4, v6) ==
    IF writes
    THEN SUBSET { protocol \in Protocols :
                    ~(IF protocol = "IPv4" THEN v4 ELSE v6) }
    ELSE {{}}

TickInputsFor(s) ==
    UNION { [bind4  : {t[1]},
             bind6  : {t[2]},
             ifaces : {t[3]},
             joinOk : SUBSET JoinCalls(BindStep("IPv4", s.ipv4Bound, t[1]).bound,
                                       BindStep("IPv6", s.ipv6Bound, t[2]).bound,
                                       t[3]),
             writeBinds :
                 WriteInputsFor((BindStep("IPv4", s.ipv4Bound, t[1]).bound
                                    \/ BindStep("IPv6", s.ipv6Bound, t[2]).bound)
                                  /\ BeginsChecking(s.confirmed),
                                BindStep("IPv4", s.ipv4Bound, t[1]).bound,
                                BindStep("IPv6", s.ipv6Bound, t[2]).bound)] :
            t \in BindInputsFor(s.ipv4Bound) \X BindInputsFor(s.ipv6Bound)
                    \X (SUBSET IfaceUniverse) }

\* The states after construction (lines 43-58, the constructor ends by
\* calling onSocketTimeout itself) over memory that held one of residues.
InitFrom(residues) ==
    \E base \in HostNames, g \in residues :
      \E in \in TickInputsFor(Constructed(base, g)) :
        LET r == SocketTimeout(Constructed(base, g), in)
        IN  /\ mIpv4Bound = r.ipv4Bound
            /\ mIpv6Bound = r.ipv6Bound
            /\ joined = r.joined
            /\ mHostname = r.hostname
            /\ mHostnameSuffix = r.suffix
            /\ suffixInitialized = r.suffixInitialized
            /\ mHostnameConfirmed = r.confirmed
            /\ mSocketTimerActive = r.socketTimer
            /\ mHostnameTimerActive = r.hostnameTimer
            /\ localHostName = r.localHostName
            /\ op = "MdnsServer"
            /\ out = r.out

\* The state after construction: the memory of mHostnameSuffix may have held
\* any int.
Init == InitFrom(Garbage)

Becomes(r, slot) ==
    /\ mIpv4Bound' = r.ipv4Bound
    /\ mIpv6Bound' = r.ipv6Bound
    /\ joined' = r.joined
    /\ mHostname' = r.hostname
    /\ mHostnameSuffix' = r.suffix
    /\ suffixInitialized' = r.suffixInitialized
    /\ mHostnameConfirmed' = r.confirmed
    /\ mSocketTimerActive' = r.socketTimer
    /\ mHostnameTimerActive' = r.hostnameTimer
    /\ localHostName' = r.localHostName
    /\ op' = slot
    /\ out' = r.out

\* The messages other objects hand to sendMessage: one per family, for a
\* name that is not a candidate of this object.
OutboundMessages ==
    { [name     |-> "other.local.",
       type     |-> "A",
       protocol |-> protocol,
       address  |-> MdnsAddress(protocol),
       port     |-> MdnsPort] : protocol \in Protocols }

\* lines 60-70 called from outside: the one write, and the state it leaves
\* the socket of the message's family in.
SendMessageCall(s, message, writeBinds) ==
    [s EXCEPT
       !.ipv4Bound = IF message.protocol = "IPv4"
                     THEN BoundAfterWrite(@, "IPv4" \in writeBinds) ELSE @,
       !.ipv6Bound = IF message.protocol = "IPv6"
                     THEN BoundAfterWrite(@, "IPv6" \in writeBinds) ELSE @]
    @@
    [out |-> [NoOut EXCEPT
                !.sent = SendMessage(message, s.ipv4Bound, s.ipv6Bound, writeBinds)]]

\* mSocketTimer fires (line 46): the maintenance tick.
OnSocketTimeout ==
    /\ mSocketTimerActive
    /\ \E in \in TickInputsFor(Cur) : Becomes(SocketTimeout(Cur, in), "onSocketTimeout")

\* mHostnameTimer fires (line 47): the timer's timeout signal is the only
\* thing connected to the slot, so the slot runs only while the timer is
\* active.
OnHostnameTimeout ==
    /\ mHostnameTimerActive
    /\ \E s \in {Cur} : Becomes(HostnameTimeout(s), "onHostnameTimeout")

\* A bound socket signals readyRead (lines 48-49) and one datagram is read.
\* Which of the two sockets signalled does not enter what the slots do with
\* the message (line 134 only annotates it).
OnReadyRead ==
    /\ { protocol \in Protocols :
            IF protocol = "IPv4" THEN mIpv4Bound ELSE mIpv6Bound } # {}
    /\ \E d \in Datagrams(Cur),
          writeBinds \in WriteInputsFor(TRUE, mIpv4Bound, mIpv6Bound) :
          LET r == ReadyRead(Cur, d, writeBinds)
          IN  Becomes([r EXCEPT !.out.rx = Digest(d, mHostname, NextName(Cur))],
                      "onReadyRead")

\* Another object calls sendMessage (lines 60-70).  Only a write on a socket
\* that is not bound meets an outcome.
OnSendMessage ==
    \E message \in OutboundMessages :
      \E writeBinds \in WriteInputsFor(TRUE, mIpv4Bound, mIpv6Bound)
                          \cap SUBSET {message.protocol} :
        Becomes(SendMessageCall(Cur, message, writeBinds), "sendMessage")

\* The steps of the program.  No statement of the file starts mHostnameTimer,
\* so mHostnameTimerActive is FALSE in every reachable state
\* (HostnameTimerNeverActive) and OnHostnameTimeout is a step of no behavior:
\* the next-state relation is that of the two slots that do run and of the
\* calls from outside.
Next == OnSocketTimeout \/ OnReadyRead \/ OnSendMessage

Spec == Init /\ [][Next]_vars

\* The maintenance tick once more, for the fairness condition: the same steps
\* as OnSocketTimeout, with the inputs drawn one after the other and the
\* members that depend on the first ones only (the bound states, then the
\* memberships) settled before the rest.
TickStep ==
    /\ op' = "onSocketTimeout"
    /\ mSocketTimerActive
    /\ \E b4 \in BindInputsFor(mIpv4Bound), b6 \in BindInputsFor(mIpv6Bound) :
       \E v4 \in {BindStep("IPv4", mIpv4Bound, b4).bound},
          v6 \in {BindStep("IPv6", mIpv6Bound, b6).bound} :
       \E writeBinds \in WriteInputsFor((v4 \/ v6) /\ BeginsChecking(mHostnameConfirmed),
                                        v4, v6) :
         /\ mIpv4Bound' = SocketAfterProbes("IPv4", v4, writeBinds)
         /\ mIpv6Bound' = SocketAfterProbes("IPv6", v6, writeBinds)
         /\ \E ifaces \in SUBSET IfaceUniverse :
              \E joinOk \in SUBSET JoinCalls(v4, v6, ifaces) :
                 /\ joined' = joined \cup joinOk
                 /\ \E r \in {SocketTimeout(Cur, [bind4 |-> b4, bind6 |-> b6,
                                                ifaces |-> ifaces, joinOk |-> joinOk,
                                                writeBinds |-> writeBinds])} :
                      Becomes(r, "onSocketTimeout")

\* The event loop keeps running: an armed timer eventually fires.
FairSpec == Spec /\ WF_vars(TickStep) /\ WF_vars(OnHostnameTimeout)

(***************************************************************************)
(* The behaviors explored.  Spec has 2^32 initial states for each outcome  *)
(* of a constructor that binds nothing, and no bound on the retries: every *)
(* conflict read adds one to the counter.  SpecBounded is Spec restricted  *)
(* to the residues of GarbageDrawn and to the retries that leave an        *)
(* assigned counter within MaxSuffix + 1 and an unassigned one within one  *)
(* retry of a drawn residue.  Every behavior of SpecBounded is a behavior  *)
(* of Spec; the restriction is that of the exploration, the program has no *)
(* such conditions.                                                        *)
(***************************************************************************)
WithinBounds ==
    IF suffixInitialized
    THEN mHostnameSuffix <= MaxSuffix + 1
    ELSE mHostnameSuffix \in GarbageDrawn \cup { SuffixAfterRetry(g) : g \in GarbageDrawn }

InitBounded == InitFrom(GarbageDrawn)

OnReadyReadBounded == OnReadyRead /\ WithinBounds'

NextBounded == OnSocketTimeout \/ OnReadyReadBounded \/ OnSendMessage

SpecBounded == InitBounded /\ [][NextBounded]_vars

FairSpecBounded == SpecBounded /\ WF_vars(TickStep) /\ WF_vars(OnHostnameTimeout)

\* mHostnameTimer is never active, hence onHostnameTimeout is never dispatched.
HostnameTimerNeverActive == ~mHostnameTimerActive /\ ~ENABLED OnHostnameTimeout

(***************************************************************************)
(* Properties.                                                             *)
(***************************************************************************)
\* A candidate has been chosen: some tick found a socket bound.
CandidateChosen == suffixInitialized

\* The step that just ran read a response holding a conflicting record.
ConflictReceived ==
    op = "onReadyRead" /\ out.rx.isResponse /\ out.rx.relevant > 0

\* The members of the prober and of the sockets are left as they were.
ProberUnchanged ==
    /\ mHostname' = mHostname
    /\ mHostnameSuffix' = mHostnameSuffix
    /\ suffixInitialized' = suffixInitialized
    /\ mHostnameConfirmed' = mHostnameConfirmed
SocketsUnchanged ==
    /\ mIpv4Bound' = mIpv4Bound
    /\ mIpv6Bound' = mIpv6Bound
    /\ joined' = joined
TimersUnchanged ==
    /\ mSocketTimerActive' = mSocketTimerActive
    /\ mHostnameTimerActive' = mHostnameTimerActive

(***************************************************************************)
(* Reading a candidate back: the number n of "<base>-<n>.local.", 0 for    *)
(* "<base>.local.", NotACandidate for any other string.                    *)
(***************************************************************************)
NotACandidate == 0 - 1

DigitValue(c) ==
    CASE c = "0" -> 0 [] c = "1" -> 1 [] c = "2" -> 2 [] c = "3" -> 3 [] c = "4" -> 4
      [] c = "5" -> 5 [] c = "6" -> 6 [] c = "7" -> 7 [] c = "8" -> 8 [] c = "9" -> 9
      [] OTHER -> NotACandidate

RECURSIVE ParseDec(_)
ParseDec(str) ==
    IF Len(str) = 0 THEN NotACandidate
    ELSE LET last == DigitValue(SubSeq(str, Len(str), Len(str)))
         IN  IF last = NotACandidate THEN NotACandidate
             ELSE IF Len(str) = 1 THEN last
             ELSE LET front == ParseDec(SubSeq(str, 1, Len(str) - 1))
                  IN  IF front = NotACandidate \/ front = 0 THEN NotACandidate
                      ELSE 10 * front + last

ParseCandidate(name, base) ==
    LET tail == ".local."
        nb   == Len(base)
        nt   == Len(tail)
        n    == Len(name)
    IN  IF n < nb + nt \/ SubSeq(name, 1, nb) # base
             \/ SubSeq(name, n - nt + 1, n) # tail
        THEN NotACandidate
        ELSE IF n = nb + nt THEN 0
        ELSE IF SubSeq(name, nb + 1, nb + 1) # "-" THEN NotACandidate
        ELSE LET k == ParseDec(SubSeq(name, nb + 2, n - nt))
             IN  IF k <= 0 THEN NotACandidate ELSE k

\* C1: once mHostnameConfirmed is true, every later step (tick, datagram,
\* timeout) leaves it true, leaves mHostname and mHostnameSuffix as they are
\* and writes no probe.  (No reachable state has mHostnameConfirmed true, see
\* NeverConfirmed: the formula holds with no step to show it.)
C1_ConfirmedIsTerminal ==
    [][mHostnameConfirmed =>
         /\ mHostnameConfirmed'
         /\ mHostname' = mHostname
         /\ mHostnameSuffix' = mHostnameSuffix
         /\ out'.sent = <<>>]_vars

\* The only statement that sets mHostnameConfirmed is line 119, in a slot that
\* is never dispatched: the flag is false and hostnameConfirmed has not been
\* emitted in every reachable state.
NeverConfirmed ==
    /\ ~mHostnameConfirmed
    /\ op # "onHostnameTimeout"
    /\ \A i \in 1..Len(out.events) : out.events[i].signal # "hostnameConfirmed"

\* C2 (as claimed): from the moment a candidate is chosen, no step lowers
\* mHostnameSuffix.
C2_SuffixNeverDecreases ==
    [][CandidateChosen => mHostnameSuffix' >= mHostnameSuffix]_vars

\* C5: a datagram that is not a response holding an A/AAAA record named as the
\* current candidate with a nonzero TTL leaves candidate, counter and flag as
\* they were and writes nothing.
C5_RetryOnlyOnConflict ==
    [][(op' = "onReadyRead" /\ ~(out'.rx.isResponse /\ out'.rx.relevant > 0))
         => (ProberUnchanged /\ out'.sent = <<>>)]_vars

\* C5 witness: while probing, a response with two records, none of them a
\* conflict, has been read.
C5_Witness ==
    /\ op = "onReadyRead"
    /\ ~mHostnameConfirmed
    /\ out.rx.isResponse
    /\ out.rx.records = 2
    /\ out.rx.relevant = 0

\* C10: a datagram that fails to decode emits no signal, writes nothing and
\* leaves prober, timers and sockets as they were.
C10_DecodeFailureIsSilent ==
    [][(op' = "onReadyRead" /\ ~out'.rx.decoded)
         => /\ out'.events = <<>>
            /\ out'.sent = <<>>
            /\ out'.binds = <<>>
            /\ out'.joins = {}
            /\ out'.started = {}
            /\ ProberUnchanged
            /\ SocketsUnchanged
            /\ TimersUnchanged]_vars

\* C10 witness: a datagram that did not decode has been read while probing.
C10_Witness ==
    /\ op = "onReadyRead"
    /\ out.rx.read
    /\ ~out.rx.decoded
    /\ CandidateChosen
    /\ ~mHostnameConfirmed

\* A probe for `name` was written on both families, IPv4 first, each a
\* query of type A to the family's multicast address.
ProbedBoth(sent, name) ==
    /\ Len(sent) = 2
    /\ sent[1].socket = "IPv4" /\ sent[2].socket = "IPv6"
    /\ \A i \in 1..2 :
         /\ sent[i].name = name
         /\ sent[i].type = "A"
         /\ sent[i].address = MdnsAddress(sent[i].socket)
         /\ sent[i].port = MdnsPort

\* hostnameConfirmed has just been emitted with the unsuffixed candidate.
ConfirmedUnsuffixed ==
    /\ op = "onHostnameTimeout"
    /\ out.events = <<ConfirmedEvent(InitialHostname(localHostName))>>

\* C3 (as claimed): if a socket gets bound and no conflicting response is ever
\* read, hostnameConfirmed("<localHostName>.local.") is eventually emitted.
C3_EventuallyConfirmed ==
    (<>(mIpv4Bound \/ mIpv6Bound) /\ []~ConflictReceived) => <>ConfirmedUnsuffixed

\* C6 (as claimed): a response with an A record for the initial candidate,
\* read while probing it, makes "<base>-1.local." the candidate, writes a
\* type-A probe for it on both families and restarts the confirmation timer.
C6_FirstConflictRetries ==
    [][(/\ op' = "onReadyRead"
        /\ ~mHostnameConfirmed
        /\ mHostname = InitialHostname(localHostName)
        /\ out'.rx.isResponse
        /\ out'.rx.relevantA > 0)
         => /\ mHostname' = localHostName \o "-1.local."
            /\ ProbedBoth(out'.sent, localHostName \o "-1.local.")
            /\ mHostnameTimerActive'
            /\ "mHostnameTimer" \in { t[1] : t \in out'.started }]_vars

\* The part of C6 that does not concern the timer.
C6_RenameAndProbe ==
    [][(/\ op' = "onReadyRead"
        /\ ~mHostnameConfirmed
        /\ mHostname = InitialHostname(localHostName)
        /\ out'.rx.isResponse
        /\ out'.rx.relevantA > 0)
         => /\ mHostname' = localHostName \o "-1.local."
            /\ ProbedBoth(out'.sent, localHostName \o "-1.local.")]_vars

\* A conflict is processed by the step: a conflicting response is read while
\* the hostname is not confirmed.
ConflictProcessed ==
    /\ op' = "onReadyRead"
    /\ ~mHostnameConfirmed
    /\ out'.rx.isResponse
    /\ out'.rx.relevant > 0

\* C7 (as claimed): each processed conflict raises the counter, the candidate
\* is always "<base>.local." or "<base>-<n>.local.", and at confirmation the
\* <n> of the name equals the counter.  (No reachable state is one of
\* confirmation, see NeverConfirmed: the third part has no state to apply
\* to.)
C7_SuffixMatchesCounter ==
    /\ [][ConflictProcessed => mHostnameSuffix' > mHostnameSuffix]_vars
    /\ [](CandidateChosen => ParseCandidate(mHostname, localHostName) # NotACandidate)
    /\ []((CandidateChosen /\ op = "onHostnameTimeout"
             /\ ParseCandidate(mHostname, localHostName) > 0)
            => ParseCandidate(mHostname, localHostName) = mHostnameSuffix)

\* What holds of name and counter once line 106 has assigned the counter
\* (C7): each processed conflict raises the counter, the candidate is always
\* "<base>.local." or "<base>-<n>.local.", and the counter is one more than
\* the <n> of the name (1 for the unsuffixed name).
C7_CounterIsNextSuffix ==
    /\ [][(ConflictProcessed /\ CandidateChosen)
            => mHostnameSuffix' > mHostnameSuffix]_vars
    /\ [](CandidateChosen => ParseCandidate(mHostname, localHostName) # NotACandidate)
    /\ [](CandidateChosen => mHostnameSuffix = ParseCandidate(mHostname, localHostName) + 1)

\* The bindSocket call the step made for `protocol`, if any.
BindsOf(protocol) ==
    { i \in 1..Len(out.binds) : out.binds[i].protocol = protocol }
ErrorsOf(protocol, what) ==
    { i \in 1..Len(out.events) :
        /\ out.events[i].signal = "error"
        /\ out.events[i].protocol = protocol
        /\ out.events[i].arg = what }

\* The tick that just ran tried both binds while the hostname was not
\* confirmed; the IPv4 one failed and the IPv6 one succeeded.
Ipv4FailedIpv6Bound ==
    /\ op \in {"MdnsServer", "onSocketTimeout"}
    /\ ~mHostnameConfirmed
    /\ \E i \in BindsOf("IPv4") : ~out.binds[i].bound
    /\ \E i \in BindsOf("IPv6") : out.binds[i].bound

\* C8: when a tick's IPv4 bind fails and its IPv6 bind succeeds (hostname not
\* confirmed), that tick emits an error for IPv4, sets the candidate and
\* probes: the IPv6 probe is delivered, the IPv4 one is not, and the only
\* signals of the tick are the error signals of bindSocket; the next tick calls
\* bindSocket for IPv4 again and not for IPv6, which stays bound.
C8_PartialBind ==
    /\ [](Ipv4FailedIpv6Bound =>
            /\ Cardinality(ErrorsOf("IPv4", "errorString")) = 1
            /\ mHostname = InitialHostname(localHostName)
            /\ mHostnameSuffix = InitialSuffix
            /\ ProbedBoth(out.sent, mHostname)
            /\ ~out.sent[1].delivered
            /\ out.sent[2].delivered
            /\ \A i \in 1..Len(out.events) :
                 /\ out.events[i].signal = "error"
                 /\ out.events[i].arg \in {"strerror", "errorString"}
            /\ Cardinality(ErrorsOf("IPv4", "strerror")) <= 1
            /\ ~mIpv4Bound
            /\ mIpv6Bound)
    /\ [][(op' = "onSocketTimeout" /\ ~mIpv4Bound /\ mIpv6Bound)
            => /\ \E i \in 1..Len(out'.binds) : out'.binds[i].protocol = "IPv4"
               /\ \A i \in 1..Len(out'.binds) : out'.binds[i].protocol # "IPv6"
               /\ mIpv6Bound']_vars

\* The members of a state record, without the outputs of the step.
StateOf(r) == [k \in DOMAIN Cur |-> r[k]]

\* The joinMulticastGroup calls a second tick with the interfaces of `in`
\* makes and the first one (result once) did not.
NewJoinCalls(once, in) ==
    JoinCalls(once.ipv4Bound, once.ipv6Bound, in.ifaces) \ once.out.joins

\* C9: from any reachable state and for any interfaces, bind outcomes, join
\* results and write outcomes, running the tick twice (the second time with
\* the same interfaces and outcomes; a join call the first run did not make
\* may succeed or fail) leaves the sockets bound and joined as running it
\* once does.
C9_TickIdempotent ==
    \A in \in TickInputsFor(Cur) :
      \A once \in {SocketTimeout(Cur, in)} :
        \A extra \in SUBSET NewJoinCalls(once, in) :
          \A twice \in {SocketTimeout(StateOf(once),
                                      [in EXCEPT !.joinOk = @ \cup extra])} :
            /\ twice.ipv4Bound = once.ipv4Bound
            /\ twice.ipv6Bound = once.ipv6Bound
            /\ twice.joined = once.joined

\* The step is a maintenance tick.
Tick == op' = "onSocketTimeout"

\* C11: the maintenance never stops.  Every tick, whatever its binds and joins
\* did and whether or not the hostname is confirmed, starts mSocketTimer for
\* 60 s again; hence the timer is armed in every reachable state and a tick
\* that changes the state can be taken from every reachable state.  (A step
\* that is enabled in every state is taken again and again by any behavior
\* that is weakly fair to it: this is what "another tick always eventually
\* follows" rests on, and C11_TickRecurs states it under FairSpecBounded.)
C11_MaintenanceNeverStops ==
    /\ [][Tick => /\ mSocketTimerActive'
                  /\ out'.started = {<<"mSocketTimer", SocketIntervalMs>>}]_vars
    /\ [](mSocketTimerActive /\ ENABLED <<TickStep>>_vars)

\* With a running event loop a tick follows again and again.
C11_TickRecurs == []<>(op = "onSocketTimeout")

\* C11 witness: a tick on which no socket could be bound (both binds failed at
\* every step) has run while the hostname was not confirmed, and the timer is
\* armed after it.
C11_Witness ==
    /\ op = "onSocketTimeout"
    /\ ~mIpv4Bound /\ ~mIpv6Bound
    /\ ~mHostnameConfirmed
    /\ Cardinality(ErrorsOf("IPv4", "errorString")) = 1
    /\ Cardinality(ErrorsOf("IPv6", "errorString")) = 1
    /\ out.joins = {}
    /\ mSocketTimerActive

\* C12 (as claimed): in every state in which a candidate has been chosen and
\* the hostname is not confirmed, the confirmation timer is pending.
C12_ProbingTimerArmed ==
    (CandidateChosen /\ ~mHostnameConfirmed) => mHostnameTimerActive

\* C13 (as claimed): the candidate is set to "<localHostName>.local." with the
\* counter at 1 by the first tick that finds a socket bound, and no tick after
\* a candidate has been chosen changes the candidate or the counter.
C13_DerivedOnlyOnFirstBind ==
    /\ [][(Tick /\ ~CandidateChosen /\ ~mHostnameConfirmed
             /\ (mIpv4Bound' \/ mIpv6Bound'))
            => /\ mHostname' = InitialHostname(localHostName)
               /\ mHostnameSuffix' = InitialSuffix]_vars
    /\ [][(Tick /\ CandidateChosen)
            => /\ mHostname' = mHostname
               /\ mHostnameSuffix' = mHostnameSuffix]_vars

\* The first half of C13, which holds: the first tick that finds a socket
\* bound sets the candidate and the counter.
C13_FirstBindDerives ==
    [][(Tick /\ ~CandidateChosen /\ ~mHostnameConfirmed
          /\ (mIpv4Bound' \/ mIpv6Bound'))
         => /\ mHostname' = InitialHostname(localHostName)
            /\ mHostnameSuffix' = InitialSuffix]_vars

\* Whether an interface carries an address of a family, and whether the
\* endpoint of a family is bound in a state record.
Carries(interface, protocol) ==
    IF protocol = "IPv4" THEN interface.v4 ELSE interface.v6
BoundIn(r, protocol) ==
    IF protocol = "IPv4" THEN r.ipv4Bound ELSE r.ipv6Bound

\* C14 (as claimed): whatever a tick finds, for every multicast-capable
\* interface and each family the endpoint of the family joins the group on the
\* interface exactly when it is bound and the interface carries an address of
\* the family, and nothing is joined on an interface that cannot multicast.
C14_GroupJoinRule ==
    \A in \in TickInputsFor(Cur) :
        LET r == SocketTimeout(Cur, in)
        IN  \A i \in in.ifaces, protocol \in Protocols :
                <<protocol, i.name>> \in r.out.joins
                  <=> (i.canMulticast /\ BoundIn(r, protocol) /\ Carries(i, protocol))

\* The part of C14 that holds: nothing is joined on an interface that cannot
\* multicast, nor through an endpoint that is not bound.
C14_OnlyMulticastAndBound ==
    \A in \in TickInputsFor(Cur) :
        LET r == SocketTimeout(Cur, in)
        IN  \A i \in in.ifaces, protocol \in Protocols :
                <<protocol, i.name>> \in r.out.joins
                  => (i.canMulticast /\ BoundIn(r, protocol))

\* C15: hostnameConfirmed is never emitted for a conflicted candidate.  The
\* name the signal carries is the current candidate, which the slot leaves as
\* it is; a conflict processed while probing replaces the candidate by another
\* name; and every step that changes the candidate writes a probe for the new
\* one on both families.  The candidate at an emission has therefore had no
\* conflict processed since its probe was written.  (hostnameConfirmed is
\* emitted in no reachable state, see NeverConfirmed: the first part holds
\* with no step to show it.)
C15_NoConfirmationOfConflicted ==
    /\ [][op' = "onHostnameTimeout"
            => /\ out'.events = <<ConfirmedEvent(mHostname)>>
               /\ mHostname' = mHostname]_vars
    /\ [][ConflictProcessed => mHostname' # mHostname]_vars
    /\ [][mHostname' # mHostname => ProbedBoth(out'.sent, mHostname')]_vars

\* The datagrams the step wrote through the socket of a family.
SentOn(sent, protocol) ==
    { i \in 1..Len(sent) : sent[i].socket = protocol }

\* C16: one inbound datagram, however many of its records match the candidate
\* before or after the rename, raises the counter by at most 1, leaves the
\* candidate either as it was or as the one name a single retry chooses, and
\* writes at most one probe per family.
C16_OneRetryPerMessage ==
    [][op' = "onReadyRead"
         => /\ (mHostnameSuffix < MaxInt => mHostnameSuffix' <= mHostnameSuffix + 1)
            /\ (mHostnameSuffix = MaxInt => mHostnameSuffix' \in {MaxInt, MinInt})
            /\ (mHostname' = mHostname \/ mHostname' = NextName(Cur))
            /\ \A protocol \in Protocols :
                 Cardinality(SentOn(out'.sent, protocol)) <= 1]_vars

\* C16 witness: a response read while probing held a conflicting record and,
\* after it, a further address record for the old or the new candidate; one
\* retry was made.
C16_Witness ==
    /\ op = "onReadyRead"
    /\ ~mHostnameConfirmed
    /\ out.rx.isResponse
    /\ out.rx.relevant > 0
    /\ out.rx.later > 0
    /\ Len(out.sent) = 2

\* C17 (as claimed): a tick in which a joinMulticastGroup call fails emits an
\* error signal.
C17_JoinFailureReported ==
    \A in \in TickInputsFor(Cur) :
        LET r == SocketTimeout(Cur, in)
        IN  (r.out.joins \ in.joinOk # {})
               => \E i \in 1..Len(r.out.events) : r.out.events[i].signal = "error"

\* The error signals the step emitted for a family.
ErrorsFor(protocol) ==
    { i \in 1..Len(out.events) :
        out.events[i].signal = "error" /\ out.events[i].protocol = protocol }

\* C18 (as claimed): a bindSocket call that binds in share mode makes no
\* second bind and emits nothing; otherwise it binds a second time, once; and
\* it emits an error exactly when it leaves the socket unbound.
C18_ErrorIffUnbound ==
    \A i \in 1..Len(out.binds) :
        LET b == out.binds[i]
        IN  /\ b.calls \in {<<"ShareAddress">>, <<"ShareAddress", "ReuseAddressHint">>}
            /\ b.calls = <<"ShareAddress">>
                 => (b.bound /\ ErrorsFor(b.protocol) = {})
            /\ ErrorsFor(b.protocol) # {} <=> ~b.bound

\* C18 (amended): a bindSocket call that binds in share mode makes no second
\* bind and emits nothing; otherwise it binds a second time, once; it emits
\* the second bind's error exactly when it leaves the socket unbound, and it
\* may emit one more error, that of setsockopt, whether or not the second bind
\* then succeeds.
C18_ErrorWhenUnbound ==
    \A i \in 1..Len(out.binds) :
        LET b == out.binds[i]
        IN  /\ b.calls \in {<<"ShareAddress">>, <<"ShareAddress", "ReuseAddressHint">>}
            /\ b.calls = <<"ShareAddress">>
                 => (b.bound /\ ErrorsFor(b.protocol) = {})
            /\ Cardinality(ErrorsOf(b.protocol, "errorString")) = (IF b.bound THEN 0 ELSE 1)
            /\ Cardinality(ErrorsOf(b.protocol, "strerror")) <= 1
            /\ ErrorsFor(b.protocol) =
                 ErrorsOf(b.protocol, "errorString") \cup ErrorsOf(b.protocol, "strerror")

\* C18 witness: a tick's bindSocket call for IPv4 failed in share mode, could
\* not set the option, and bound at the second bind: the socket is bound and
\* an error was emitted.
C18_Witness ==
    /\ op = "onSocketTimeout"
    /\ \E i \in BindsOf("IPv4") :
         /\ out.binds[i].calls = <<"ShareAddress", "ReuseAddressHint">>
         /\ out.binds[i].bound
    /\ Cardinality(ErrorsOf("IPv4", "strerror")) = 1
    /\ ErrorsOf("IPv4", "errorString") = {}
    /\ mIpv4Bound

\* C19 (as claimed): the constructor leaves the counter unassigned when it
\* binds no socket; datagrams being read from bound sockets only, every retry
\* (the step that reads and increments the counter at line 148) is made
\* after a tick has set the candidate and assigned the counter at lines
\* 105-106.
C19_CounterSetBeforeRead ==
    /\ []((op = "MdnsServer" /\ ~mIpv4Bound /\ ~mIpv6Bound) => ~CandidateChosen)
    /\ [][ConflictProcessed => CandidateChosen]_vars

\* The bindSocket calls a step made for a family, read off the step's outputs.
BindCalled(o, protocol) ==
    \E i \in 1..Len(o.binds) : o.binds[i].protocol = protocol

\* C20: a tick calls bindSocket for a family exactly when that family's socket
\* is not bound; no other slot calls it; and no step of any slot takes a bound
\* socket out of the bound state.
C20_BindOnlyWhileUnbound ==
    /\ [][Tick => /\ BindCalled(out', "IPv4") <=> ~mIpv4Bound
                  /\ BindCalled(out', "IPv6") <=> ~mIpv6Bound]_vars
    /\ [][~Tick => out'.binds = <<>>]_vars
    /\ [][(mIpv4Bound => mIpv4Bound') /\ (mIpv6Bound => mIpv6Bound')]_vars

\* C20 witness: a tick has run with the IPv4 socket already bound and the IPv6
\* socket not: it called bindSocket for IPv6 alone, which failed, and the IPv4
\* socket is still bound.
C20_Witness ==
    /\ op = "onSocketTimeout"
    /\ BindsOf("IPv4") = {}
    /\ BindsOf("IPv6") # {}
    /\ mIpv4Bound
    /\ ~mIpv6Bound

====
